---- MODULE Spec2Model ----
(***************************************************************************)
(* AWStoB2: migration of the objects of an S3 bucket to a Backblaze B2     *)
(* bucket.  The module models the two phases of main():                    *)
(*   - run_aws_cache (src/src/aws_cache.rs): the paginated listing is      *)
(*     drained into the spool file .aws_files        (specification        *)
(*     SpecEnum);                                                          *)
(*   - the transfer phase of main (src/src/main.rs): prefill of the upload *)
(*     url cache, reading of the spool, and the buffer_unordered fan-out   *)
(*     of run_transfer futures on the single thread that polls them        *)
(*     (specification Spec, and FairSpec with fairness).                   *)
(* One action is one resumption of a future: the code that runs between    *)
(* two suspension points (.await on a network or file operation).          *)
(***************************************************************************)
EXTENDS Integers, Sequences, FiniteSets, TLC

\* ------------------------------------------------------------------------
\* Bounds.  The literals 10 (buffer_unordered) and 20 (prefill loop) of
\* main.rs are scaled down: an empty pool needs PrefillCount slots to be
\* lost first, and the bound on concurrency only bites with more keys than
\* Concurrency.
NumKeys == 3          \* lines of .aws_files read by main
Concurrency == 2      \* main.rs:209  buffer_unordered(10), scaled
PrefillCount == 2     \* main.rs:45   for _ in 0..20, scaled
MaxFaults == 2        \* remote or file operations that fail during the fan-out
MaxPages == 3         \* pages of the S3 listing
MaxEntries == 3       \* objects of the S3 listing, over all its pages

VARIABLES
    \* ---- transfer phase (main.rs)
    phase,            \* position of main: "enum" | "start" | "auth" | "open_sink" | "prefill" | "read" | "transfer" | "finished" | "aborted"
    cause,            \* the call whose error made main return: "" | "spool" | "auth" | "sink_open" | "prefill" | "spool_read"
    thread,           \* the one thread that polls every future: "running" | "blocked" | "panicked"
    stuck,            \* the mutex the thread is blocked on: "none" | "pool" | "sink"
    pool,             \* BlazeUploadUrlCache.0 : Vec<UploadUrlResponse>
    pool_lock,        \* holder of the pool's Mutex (0 = unlocked)
    minted,           \* number of get_upload_url calls that returned a slot
    releases,         \* return_upload_url calls that pushed
    hits,             \* take_upload_url calls that popped
    sink_lock,        \* holder of the FailedTransfers Mutex (0 = unlocked)
    failed_transfers, \* content of .failed_transfers (keys, one per line)
    failed_before,    \* content of .failed_transfers when FailedTransfers::new opened it
    sink_pos,         \* position of the file handle of .failed_transfers, in lines
    recorded,         \* keys of the add_url_to_failed calls that returned Ok, in order
    lines,            \* Vec<String> read from .aws_files
    next,             \* position of the lines iterator
    started,          \* positions handed to a run_transfer future, in order
    task,             \* the futures inside buffer_unordered, by position
    faults,           \* failed operations so far (bounded by MaxFaults)
    \* ---- listing phase (aws_cache.rs)
    epc,              \* position of run_aws_cache
    listing,          \* what the provider holds: the pages of the listing
    next_continuation_token, \* AWSTransferCache.next_continuation_token (0 = None)
    cache,            \* AWSTransferCache.cache
    aws_files,        \* content of .aws_files (keys, one per line)
    spooled,          \* Len(aws_files) when run_aws_cache opened it
    requests,         \* continuation tokens of the list requests sent
    received          \* page numbers of the list responses received

log_vars == <<failed_transfers, failed_before, sink_pos, recorded>>
xfer_vars == <<phase, cause, thread, stuck, pool, pool_lock, minted, releases, hits,
               sink_lock, log_vars, lines, next, started, task, faults>>
enum_vars == <<epc, listing, next_continuation_token, cache,
               aws_files, spooled, requests, received>>
vars == <<xfer_vars, enum_vars>>

\* ------------------------------------------------------------------------
\* Values

Tasks == 1..NumKeys

\* Option::None of an upload url, of a continuation token, of a key
None == 0
\* Option::None of Object.size
NoSize == -1

\* Result<serde_json::Value> of B2Authorization::upload_file: Ok, the
\* structured Error::Blaze(BlazeError{status,..}), or Error::Request
Statuses == {400, 401, 503}
UploadResults ==
    {[kind |-> "Ok", status |-> 200]}
        \cup {[kind |-> "Blaze", status |-> s] : s \in Statuses}
        \cup {[kind |-> "Request", status |-> 0]}

\* One upload attempt of a task: the result and how the task got the slot it
\* used ("pool": popped, "miss": minted inside take_upload_url, "retry":
\* minted by the retry branch).
Attempt(r, how) == [kind |-> r.kind, status |-> r.status, how |-> how]

\* A future of the stream: pc is the await it is suspended at; url/how the
\* local upload_url; dl, rd the outcomes of get_object and read_to_end; miss
\* and mint the outcomes of new_upload_url inside take_upload_url and in the
\* retry branch; ups the upload attempts; ret whether return_upload_url
\* pushed; res the Result of run_transfer; sink the Result of
\* add_url_to_failed.
NewTask ==
    [pc |-> "new", url |-> None, leased |-> None, how |-> "", dl |-> "", rd |-> "", miss |-> "",
     mint |-> "", ups |-> <<>>, ret |-> FALSE, res |-> "", sink |-> ""]

Active == {i \in Tasks : task[i].pc \notin {"new", "done"}}

\* ------------------------------------------------------------------------
\* Pure pieces of the code

\* main.rs:138  matches!(e.status, 401 | 503)
Retryable_401only(status) == status = 401
Retryable(status) == status \in {401, 503}

\* main.rs:209  buffer_unordered(10): a further future is pulled from the
\* stream while fewer than the limit are in progress
HasRoom_offbyone(n) == n <= Concurrency
HasRoom(n) == n < Concurrency

\* main.rs:193  lines.into_iter(): the iterator advances by one per future
IterNext(n) == n + 1

\* main.rs:55  Vec::pop: the last element leaves the vector
Front_keep(v) == v
Front(v) == SubSeq(v, 1, Len(v) - 1)
Last(v) == v[Len(v)]

\* main.rs:45  for _ in 0..20: the loop ends after the last mint
PrefillDone_short(n) == n >= PrefillCount - 1
PrefillDone(n) == n >= PrefillCount

\* main.rs:78  OpenOptions::new().write(true).create(true).open: the file is
\* neither truncated nor opened for append, its handle starts at offset 0
OpenPos(file) == 0

\* main.rs:88  write_all through that handle: the bytes go to the handle's
\* position, over what the file holds there (every key takes one line of
\* the same length)
WriteAt(file, pos, line) ==
    IF pos < Len(file) THEN [file EXCEPT ![pos + 1] = line] ELSE Append(file, line)

\* main.rs:203-205  an Err of add_url_to_failed is printed; main goes on
OnFileFailed_abort(ph) == "aborted"
OnFileFailed(ph) == ph

\* main.rs:139  upload_url = new_upload_url(..): the task's variable now
\* holds the new slot, the slot it held is dropped (record t of the task)
Reassign_shadow(t, slot) == t
Reassign(t, slot) == [t EXCEPT !.url = slot]

\* main.rs:63  Vec::push
Push_lost(v, x) == v
Push(v, x) == Append(v, x)

\* ------------------------------------------------------------------------
\* Transfer phase: pieces shared by the resumptions of a future

\* A Mutex::lock (std::sync) reached while a suspended future polled by this
\* same thread holds the guard never returns; std leaves open whether the
\* thread deadlocks or panics: thread' \in {"blocked", "panicked"}.

\* main.rs:122-144  a return through `?` or `return Err(..)`: the locals of
\* download_and_send_next are dropped, upload_url among them (record t)
DropSlot_keep(t) == t
DropSlot(t) == [t EXCEPT !.url = None]

\* main.rs:200-205 with run_transfer's result Err, up to the suspension of
\* add_url_to_failed (main.rs:82-89): the guard is taken and kept across the
\* awaits of write_all and flush.  t is the future's record at the error.
Failed(i, t) ==
    IF sink_lock # 0
    THEN /\ thread' \in {"blocked", "panicked"}
         /\ stuck' = "sink"
         /\ task' = [task EXCEPT ![i] = [DropSlot(t) EXCEPT !.pc = "lock", !.res = "Err"]]
         /\ UNCHANGED sink_lock
    ELSE /\ sink_lock' = i
         /\ task' = [task EXCEPT ![i] = [DropSlot(t) EXCEPT !.pc = "flush", !.res = "Err"]]
         /\ UNCHANGED <<thread, stuck>>

\* main.rs:146-151  return_upload_url (62-65) and Ok(()): the future ends
ReturnUploadUrl(i, t) ==
    IF pool_lock # 0
    THEN /\ thread' \in {"blocked", "panicked"}
         /\ stuck' = "pool"
         /\ task' = [task EXCEPT ![i] = [t EXCEPT !.pc = "lock"]]
         /\ UNCHANGED <<pool, pool_lock, releases>>
    ELSE /\ pool' = Push(pool, t.url)
         /\ releases' = releases + 1
         /\ task' = [task EXCEPT ![i] =
                        [t EXCEPT !.pc = "done", !.url = None, !.ret = TRUE, !.res = "Ok"]]
         /\ UNCHANGED <<pool_lock, thread, stuck>>

\* main.rs:135 take_upload_url (52-60) up to its suspension, and on a hit the
\* call of upload_file up to its send (main.rs:137, backblaze.rs:208-226)
TakeUploadUrl(i, t) ==
    IF pool_lock # 0
    THEN /\ thread' \in {"blocked", "panicked"}
         /\ stuck' = "pool"
         /\ task' = [task EXCEPT ![i] = [t EXCEPT !.pc = "lock"]]
         /\ UNCHANGED <<pool, pool_lock, hits>>
    ELSE IF pool # <<>>
    THEN /\ pool' = Front(pool)
         /\ hits' = hits + 1
         /\ task' = [task EXCEPT ![i] =
                        [t EXCEPT !.pc = "upload", !.url = Last(pool),
                                  !.leased = Last(pool), !.how = "pool"]]
         /\ UNCHANGED <<pool_lock, thread, stuck>>
    ELSE /\ pool_lock' = i
         /\ task' = [task EXCEPT ![i] = [t EXCEPT !.pc = "mint"]]
         /\ UNCHANGED <<pool, hits, thread, stuck>>

\* ------------------------------------------------------------------------
\* Listing phase: the provider and the pure pieces of aws_cache.rs

\* The objects of one page: every object of the bucket has its own key
\* (10 * page + index); an Object may lack its key or its size.
EntryKinds ==
    {[haskey |-> TRUE, size |-> 1], [haskey |-> FALSE, size |-> 1],
     [haskey |-> TRUE, size |-> 0], [haskey |-> TRUE, size |-> NoSize]}
Entry(p, j, kind) ==
    [key |-> IF kind.haskey THEN 10 * p + j ELSE None, size |-> kind.size]

RECURSIVE SumTo(_, _)
SumTo(f, n) == IF n = 0 THEN 0 ELSE f[n] + SumTo(f, n - 1)

\* The listings of m pages with lens[p] objects on page p
Listings(m, lens) ==
    {[p \in 1..m |-> [j \in 1..lens[p] |-> Entry(p, j, kinds[SumTo(lens, p - 1) + j])]] :
        kinds \in [1..SumTo(lens, m) -> EntryKinds]}

\* aws_cache.rs:21-27  list_objects_v2 answering a request that carries the
\* continuation token tok: the page it names and the token of the page after
PageOf(tok) == IF tok = None THEN 1 ELSE tok
Cursor(p) == IF p < Len(listing) THEN p + 1 ELSE None
list_objects_v2(tok) ==
    [contents |-> listing[PageOf(tok)], next_continuation_token |-> Cursor(PageOf(tok))]

\* aws_cache.rs:39  Vec::reverse
Reverse_not(v) == v
Reverse(v) == [j \in 1..Len(v) |-> v[Len(v) + 1 - j]]

\* aws_cache.rs:97  Option::unwrap_or_default on the size
unwrap_or_default(x) == IF x = NoSize THEN 0 ELSE x

\* aws_cache.rs:97  the entries that are written to the spool
ShouldWrite_nonneg(o) == unwrap_or_default(o.size) >= 0 /\ o.key # None
ShouldWrite(o) == unwrap_or_default(o.size) > 0 /\ o.key # None

\* aws_cache.rs:20-42  req_more_objects on the fields (tok, cch): ok is
\* whether the list request succeeded
req_more_objects_deaf(tok, cch, ok) ==
    [tok |-> list_objects_v2(tok).next_continuation_token,
     cch |-> Reverse(list_objects_v2(tok).contents)]
req_more_objects(tok, cch, ok) ==
    IF ok
    THEN [tok |-> list_objects_v2(tok).next_continuation_token,
          cch |-> Reverse(list_objects_v2(tok).contents)]
    ELSE [tok |-> tok, cch |-> cch]

\* The environment lets an operation fail only while the budget lasts.
Fault(failing) ==
    /\ failing => faults < MaxFaults
    /\ faults' = IF failing THEN faults + 1 ELSE faults

\* ------------------------------------------------------------------------
\* Transfer phase: actions

\* main.rs:42-50  BlazeUploadUrlCache::new, one iteration of the loop
BlazeUploadUrlCache_new ==
    /\ phase = "prefill"
    /\ \E ok \in BOOLEAN :
         IF ok
         THEN /\ pool' = Append(pool, minted + 1)
              /\ minted' = minted + 1
              /\ phase' = IF PrefillDone(Len(pool) + 1) THEN "read" ELSE "prefill"
              /\ UNCHANGED cause
         ELSE /\ pool' = <<>>
              /\ phase' = "aborted"
              /\ cause' = "prefill"
              /\ UNCHANGED minted
    /\ UNCHANGED <<thread, stuck, pool_lock, releases, hits, sink_lock,
                   log_vars, lines, next, started, task, faults, enum_vars>>

\* main.rs:181-190  File::open(".aws_files") and the read of its lines
ReadSpool ==
    /\ phase = "read"
    /\ \E ok \in BOOLEAN :
         IF ok
         THEN lines' = aws_files /\ phase' = "transfer" /\ cause' = cause
         ELSE lines' = lines /\ phase' = "aborted" /\ cause' = "spool_read"
    /\ UNCHANGED <<thread, stuck, pool, pool_lock, minted, releases, hits, sink_lock,
                   log_vars, next, started, task, faults, enum_vars>>

\* main.rs:192-200, 156-160, 113-127: buffer_unordered pulls the next future
\* from the stream and polls it up to the await of get_object
Start ==
    /\ phase = "transfer"
    /\ thread = "running"
    /\ next <= Len(lines)
    /\ HasRoom(Cardinality(Active))
    /\ task' = [task EXCEPT ![next] = [NewTask EXCEPT !.pc = "get_object"]]
    /\ started' = Append(started, next)
    /\ next' = IterNext(next)
    /\ UNCHANGED <<phase, cause, thread, stuck, pool, pool_lock, minted, releases, hits,
                   sink_lock, log_vars, lines, faults, enum_vars>>

\* main.rs:129, 147-151: obj.body is None: the else branch prints and the
\* function returns Ok(()) (record t of task i)
OnNoBody_fail(i, t) == Failed(i, t)
OnNoBody(i, t) ==
    /\ task' = [task EXCEPT ![i] = [t EXCEPT !.pc = "done", !.res = "Ok"]]
    /\ UNCHANGED <<sink_lock, thread, stuck>>

\* main.rs:122-133, 147-151: the response of get_object
GetObject(i) ==
    /\ phase = "transfer"
    /\ thread = "running"
    /\ task[i].pc = "get_object"
    /\ \E r \in {"Err", "NoBody", "Body"} :
         LET t == [task[i] EXCEPT !.dl = r] IN
         /\ Fault(r = "Err")
         /\ CASE r = "Err" -> Failed(i, t)
             [] r = "NoBody" -> OnNoBody(i, t)
             [] r = "Body" ->
                /\ task' = [task EXCEPT ![i] = [t EXCEPT !.pc = "read_to_end"]]
                /\ UNCHANGED <<sink_lock, thread, stuck>>
    /\ UNCHANGED <<phase, cause, pool, pool_lock, minted, releases, hits,
                   log_vars, lines, next, started, enum_vars>>

\* main.rs:133-137: read_to_end completes, then take_upload_url
ReadToEnd(i) ==
    /\ phase = "transfer"
    /\ thread = "running"
    /\ task[i].pc = "read_to_end"
    /\ \E ok \in BOOLEAN :
         LET t == [task[i] EXCEPT !.rd = IF ok THEN "Ok" ELSE "Err"] IN
         /\ Fault(~ok)
         /\ IF ok
            THEN TakeUploadUrl(i, t) /\ UNCHANGED sink_lock
            ELSE Failed(i, t) /\ UNCHANGED <<pool, pool_lock, hits>>
    /\ UNCHANGED <<phase, cause, minted, releases, log_vars, lines, next, started,
                   enum_vars>>

\* main.rs:58-60, 135-137: the response of new_upload_url awaited inside
\* take_upload_url; the guard is dropped when take_upload_url returns
MintOnMiss(i) ==
    /\ phase = "transfer"
    /\ thread = "running"
    /\ task[i].pc = "mint"
    /\ pool_lock' = 0
    /\ \E ok \in BOOLEAN :
         /\ Fault(~ok)
         /\ IF ok
            THEN /\ minted' = minted + 1
                 /\ task' = [task EXCEPT ![i] =
                               [@ EXCEPT !.pc = "upload", !.url = minted + 1,
                                         !.leased = minted + 1,
                                         !.how = "miss", !.miss = "Ok"]]
                 /\ UNCHANGED <<sink_lock, thread, stuck>>
            ELSE /\ Failed(i, [task[i] EXCEPT !.miss = "Err"])
                 /\ UNCHANGED minted
    /\ UNCHANGED <<phase, cause, pool, releases, hits, log_vars, lines, next, started,
                   enum_vars>>

\* main.rs:137-146: the response of the first upload_file
Upload(i) ==
    /\ phase = "transfer"
    /\ thread = "running"
    /\ task[i].pc = "upload"
    /\ \E r \in UploadResults :
         LET t == [task[i] EXCEPT !.ups = Append(@, Attempt(r, task[i].how))] IN
         /\ Fault(r.kind # "Ok")
         /\ IF r.kind = "Blaze"
            THEN IF Retryable(r.status)
                 THEN /\ task' = [task EXCEPT ![i] = [t EXCEPT !.pc = "remint"]]
                      /\ UNCHANGED <<pool, pool_lock, releases, sink_lock, thread, stuck>>
                 ELSE /\ Failed(i, t)
                      /\ UNCHANGED <<pool, pool_lock, releases>>
            ELSE ReturnUploadUrl(i, t) /\ UNCHANGED sink_lock
    /\ UNCHANGED <<phase, cause, minted, hits, log_vars, lines, next, started,
                   enum_vars>>

\* main.rs:139-140: the response of new_upload_url in the retry branch
MintForRetry(i) ==
    /\ phase = "transfer"
    /\ thread = "running"
    /\ task[i].pc = "remint"
    /\ \E ok \in BOOLEAN :
         /\ Fault(~ok)
         /\ IF ok
            THEN /\ minted' = minted + 1
                 /\ task' = [task EXCEPT ![i] =
                               [Reassign(@, minted + 1) EXCEPT
                                    !.pc = "reupload", !.how = "retry", !.mint = "Ok"]]
                 /\ UNCHANGED <<sink_lock, thread, stuck>>
            ELSE /\ Failed(i, [task[i] EXCEPT !.mint = "Err"])
                 /\ UNCHANGED minted
    /\ UNCHANGED <<phase, cause, pool, pool_lock, releases, hits, log_vars, lines,
                   next, started, enum_vars>>

\* main.rs:140-146: the response of the retried upload_file
Reupload(i) ==
    /\ phase = "transfer"
    /\ thread = "running"
    /\ task[i].pc = "reupload"
    /\ \E r \in UploadResults :
         LET t == [task[i] EXCEPT !.ups = Append(@, Attempt(r, task[i].how))] IN
         /\ Fault(r.kind # "Ok")
         /\ IF r.kind = "Ok"
            THEN ReturnUploadUrl(i, t) /\ UNCHANGED sink_lock
            ELSE Failed(i, t) /\ UNCHANGED <<pool, pool_lock, releases>>
    /\ UNCHANGED <<phase, cause, minted, hits, log_vars, lines, next, started,
                   enum_vars>>

\* main.rs:88-92, 203-207: write_all and flush complete, the guard is dropped
\* and the future ends
Flush(i) ==
    /\ phase = "transfer"
    /\ thread = "running"
    /\ task[i].pc = "flush"
    /\ sink_lock' = 0
    /\ \E ok \in BOOLEAN :
         /\ Fault(~ok)
         /\ failed_transfers' =
                IF ok THEN WriteAt(failed_transfers, sink_pos, lines[i])
                ELSE failed_transfers
         /\ sink_pos' = IF ok THEN sink_pos + 1 ELSE sink_pos
         /\ recorded' = IF ok THEN Append(recorded, lines[i]) ELSE recorded
         /\ phase' = IF ok THEN phase ELSE OnFileFailed(phase)
         /\ task' = [task EXCEPT ![i] =
                        [@ EXCEPT !.pc = "done", !.sink = IF ok THEN "Ok" ELSE "Err"]]
    /\ UNCHANGED <<failed_before, cause, thread, stuck, pool, pool_lock, minted, releases, hits,
                   lines, next, started, enum_vars>>

\* main.rs:209-215: the stream is exhausted and every future has ended
Finish ==
    /\ phase = "transfer"
    /\ thread = "running"
    /\ next > Len(lines)
    /\ Active = {}
    /\ phase' = "finished"
    /\ UNCHANGED cause
    /\ UNCHANGED <<thread, stuck, pool, pool_lock, minted, releases, hits, sink_lock,
                   log_vars, lines, next, started, task, faults, enum_vars>>

\* main.rs:171  run_aws_cache().await?  (its steps are the listing phase
\* below; here only its Result counts: an Err is an I/O error on .aws_files)
RunAwsCache ==
    /\ phase = "start"
    /\ \E ok \in BOOLEAN :
         IF ok THEN phase' = "auth" /\ cause' = cause
         ELSE phase' = "aborted" /\ cause' = "spool"
    /\ UNCHANGED <<thread, stuck, pool, pool_lock, minted, releases, hits, sink_lock,
                   log_vars, lines, next, started, task, faults, enum_vars>>

\* main.rs:175, backblaze.rs:45-96  get_or_update_blaze_cache().await?  (the
\* account authorization, read from .blaze_cache or requested from B2)
GetOrUpdateBlazeCache ==
    /\ phase = "auth"
    /\ \E ok \in BOOLEAN :
         IF ok THEN phase' = "open_sink" /\ cause' = cause
         ELSE phase' = "aborted" /\ cause' = "auth"
    /\ UNCHANGED <<thread, stuck, pool, pool_lock, minted, releases, hits, sink_lock,
                   log_vars, lines, next, started, task, faults, enum_vars>>

\* main.rs:177, 76-80  FailedTransfers::new().await?
FailedTransfers_new ==
    /\ phase = "open_sink"
    /\ \E ok \in BOOLEAN :
         IF ok THEN phase' = "prefill" /\ cause' = cause /\ sink_pos' = OpenPos(failed_transfers)
         ELSE phase' = "aborted" /\ cause' = "sink_open" /\ sink_pos' = sink_pos
    /\ UNCHANGED <<thread, stuck, pool, pool_lock, minted, releases, hits, sink_lock,
                   failed_transfers, failed_before, recorded, lines, next, started,
                   task, faults, enum_vars>>

\* main.rs:167-171: the state at the start of main's transfer of the spool,
\* with .aws_files holding NumKeys distinct keys and .failed_transfers empty
\* or left by an earlier run
Init ==
    /\ phase = "start"
    /\ cause = ""
    /\ sink_pos = 0
    /\ recorded = <<>>
    /\ thread = "running"
    /\ stuck = "none"
    /\ pool = <<>>
    /\ pool_lock = 0
    /\ minted = 0
    /\ releases = 0
    /\ hits = 0
    /\ sink_lock = 0
    /\ failed_transfers \in {<<>>, <<90>>}
    /\ failed_before = failed_transfers
    /\ lines = <<>>
    /\ next = 1
    /\ started = <<>>
    /\ task = [i \in Tasks |-> NewTask]
    /\ faults = 0
    /\ epc = "done"
    /\ listing = <<>>
    /\ next_continuation_token = None
    /\ cache = <<>>
    /\ aws_files = [i \in 1..NumKeys |-> 100 + i]
    /\ spooled = 0
    /\ requests = <<>>
    /\ received = <<>>

Next ==
    \/ RunAwsCache
    \/ GetOrUpdateBlazeCache
    \/ FailedTransfers_new
    \/ BlazeUploadUrlCache_new
    \/ ReadSpool
    \/ Start
    \/ \E i \in Tasks : GetObject(i)
    \/ \E i \in Tasks : ReadToEnd(i)
    \/ \E i \in Tasks : MintOnMiss(i)
    \/ \E i \in Tasks : Upload(i)
    \/ \E i \in Tasks : MintForRetry(i)
    \/ \E i \in Tasks : Reupload(i)
    \/ \E i \in Tasks : Flush(i)
    \/ Finish

Spec == Init /\ [][Next]_vars

\* The executor polls a future whenever the operation it awaits has completed,
\* and every remote or file operation completes: a step that stays possible
\* is taken.
FairSpec == Spec /\ WF_vars(Next)

\* ------------------------------------------------------------------------
\* Listing phase: actions of run_aws_cache

\* aws_cache.rs:86  the first req_more_objects
FirstRequest ==
    /\ epc = "first"
    /\ \E ok \in BOOLEAN :
         LET st == req_more_objects(next_continuation_token, cache, ok) IN
         /\ next_continuation_token' = st.tok
         /\ cache' = st.cch
         /\ requests' = Append(requests, next_continuation_token)
         /\ received' = IF ok THEN Append(received, PageOf(next_continuation_token))
                        ELSE received
    /\ epc' = "loop"
    /\ UNCHANGED <<listing, aws_files, spooled, xfer_vars>>

\* aws_cache.rs:90-104  one iteration of the while loop: get_next_object
\* (44-52) with its refill, then the write of the object
LoopIteration ==
    /\ epc = "loop"
    /\ LET refill == cache = <<>> /\ next_continuation_token # None IN
       \E ok \in (IF refill THEN BOOLEAN ELSE {TRUE}) :
         LET st == IF refill
                   THEN req_more_objects(next_continuation_token, cache, ok)
                   ELSE [tok |-> next_continuation_token, cch |-> cache]
         IN
         /\ next_continuation_token' = st.tok
         /\ requests' = IF refill THEN Append(requests, next_continuation_token)
                        ELSE requests
         /\ received' = IF refill /\ ok
                        THEN Append(received, PageOf(next_continuation_token))
                        ELSE received
         /\ IF st.cch = <<>>
            THEN /\ cache' = <<>>
                 /\ epc' = "sync"
                 /\ UNCHANGED aws_files
            ELSE /\ cache' = Front(st.cch)
                 /\ IF ShouldWrite(Last(st.cch))
                    THEN \E written \in BOOLEAN :
                           IF written
                           THEN /\ aws_files' = Append(aws_files, Last(st.cch).key)
                                /\ epc' = "loop"
                           ELSE /\ aws_files' = aws_files
                                /\ epc' = "error"
                    ELSE /\ epc' = "loop"
                         /\ UNCHANGED aws_files
    /\ UNCHANGED <<listing, spooled, xfer_vars>>

\* aws_cache.rs:106-110  sync_all and the return
SyncAll ==
    /\ epc = "sync"
    /\ \E ok \in BOOLEAN : epc' = IF ok THEN "done" ELSE "error"
    /\ UNCHANGED <<listing, next_continuation_token, cache, aws_files, spooled,
                   requests, received, xfer_vars>>

\* aws_cache.rs:83-85  .aws_files is open for append (it may hold the keys of
\* an earlier run) and the AWSTransferCache is the default one
InitEnum ==
    /\ phase = "enum"
    /\ cause = ""
    /\ failed_before = <<>>
    /\ sink_pos = 0
    /\ recorded = <<>>
    /\ thread = "running"
    /\ stuck = "none"
    /\ pool = <<>>
    /\ pool_lock = 0
    /\ minted = 0
    /\ releases = 0
    /\ hits = 0
    /\ sink_lock = 0
    /\ failed_transfers = <<>>
    /\ lines = <<>>
    /\ next = 1
    /\ started = <<>>
    /\ task = [i \in Tasks |-> NewTask]
    /\ faults = 0
    /\ epc = "first"
    /\ \E m \in 1..MaxPages : \E lens \in [1..m -> 0..MaxEntries] :
         /\ SumTo(lens, m) <= MaxEntries
         /\ listing \in Listings(m, lens)
    /\ next_continuation_token = None
    /\ cache = <<>>
    /\ aws_files \in {<<>>, <<99>>}
    /\ spooled = Len(aws_files)
    /\ requests = <<>>
    /\ received = <<>>

NextEnum ==
    \/ FirstRequest
    \/ LoopIteration
    \/ SyncAll

SpecEnum == InitEnum /\ [][NextEnum]_vars

\* ------------------------------------------------------------------------
\* Properties of the transfer phase

Count(seq, x) == Cardinality({n \in 1..Len(seq) : seq[n] = x})

\* run_transfer of the future at position i has returned
Ended(i) == task[i].res # ""

\* the first upload attempt failed with a structured failure
FirstBlaze(i) == Len(task[i].ups) >= 1 /\ task[i].ups[1].kind = "Blaze"
FirstRetryable(i) == FirstBlaze(i) /\ task[i].ups[1].status \in {401, 503}
FirstTransport(i) == Len(task[i].ups) >= 1 /\ task[i].ups[1].kind = "Request"

\* C1: in every reachable state at most Concurrency futures have started and
\* not yet ended, the time a future spends in add_url_to_failed included.
C1_AtMostKActive == Cardinality(Active) <= Concurrency

C1_Witness ==
    /\ Cardinality(Active) = Concurrency
    /\ next <= Len(lines)
    /\ \E i \in Tasks : task[i].pc = "flush"

\* C2 as stated: a first attempt that fails with 401 or 503 is followed by
\* exactly one further attempt, on a slot minted by the retry branch; one that
\* fails with another status is followed by none and the task is Fatal; no
\* key is uploaded more than twice.
C2_ExactlyOneRetry ==
    \A i \in Tasks : Ended(i) =>
        /\ Len(task[i].ups) <= 2
        /\ FirstRetryable(i) =>
              Len(task[i].ups) = 2 /\ task[i].ups[2].how = "retry"
        /\ (FirstBlaze(i) /\ ~FirstRetryable(i)) =>
              Len(task[i].ups) = 1 /\ task[i].res = "Err"

\* C2 amended: after a first attempt that fails with 401 or 503 one slot is
\* requested from the remote; when that mint succeeds exactly one further
\* attempt is made, on the minted slot; when it fails no further attempt is
\* made and the task is Fatal.  After any other status no further attempt is
\* made and the task is Fatal.  No key is uploaded more than twice.
C2_RetryPolicy ==
    \A i \in Tasks : Ended(i) =>
        /\ Len(task[i].ups) <= 2
        /\ FirstRetryable(i) =>
              /\ task[i].mint \in {"Ok", "Err"}
              /\ task[i].mint = "Ok" =>
                    Len(task[i].ups) = 2 /\ task[i].ups[2].how = "retry"
              /\ task[i].mint = "Err" =>
                    Len(task[i].ups) = 1 /\ task[i].res = "Err"
        /\ (FirstBlaze(i) /\ ~FirstRetryable(i)) =>
              /\ Len(task[i].ups) = 1
              /\ task[i].mint = ""
              /\ task[i].res = "Err"

C2_Witness ==
    /\ \E i \in Tasks :
         /\ Ended(i) /\ FirstRetryable(i) /\ task[i].ups[1].status = 503
         /\ Len(task[i].ups) = 2 /\ task[i].res = "Ok"
    /\ \E i \in Tasks :
         Ended(i) /\ FirstBlaze(i) /\ task[i].ups[1].status = 400

\* C3: a transport-level failure of the first upload attempt makes the task
\* Fatal: no retry, the result is an error, the slot is not returned to the
\* pool, and the key is appended to the failure log.
C3_TransportFailureIsFatal ==
    \A i \in Tasks : (task[i].pc = "done" /\ FirstTransport(i)) =>
        /\ Len(task[i].ups) = 1
        /\ task[i].res = "Err"
        /\ ~task[i].ret
        /\ Count(failed_transfers, lines[i]) = 1

\* The tasks that are Fatal by the specification: download error, failed mint,
\* first upload failure that is not retryable, failed retry.
Fatal(i) ==
    \/ task[i].dl = "Err"
    \/ task[i].rd = "Err"
    \/ task[i].miss = "Err"
    \/ task[i].mint = "Err"
    \/ FirstBlaze(i) /\ ~FirstRetryable(i)
    \/ FirstTransport(i)
    \/ Len(task[i].ups) = 2 /\ task[i].ups[2].kind # "Ok"

\* C4: after the run the key of every Fatal task is in the failure log exactly
\* once, and the key of no other task is in it.
C4_FailureLogExact ==
    phase = "finished" =>
        \A i \in Tasks :
            Count(failed_transfers, lines[i]) = IF Fatal(i) THEN 1 ELSE 0

\* C5: every position of the spool is handed to exactly one future, whatever
\* the interleaving and whichever tasks fail: once the run can go no further,
\* started holds every position once.
C5_EveryKeyHandedOnce ==
    (phase = "finished" \/ (phase = "transfer" /\ thread # "running")) =>
        \A n \in 1..Len(lines) : Count(started, n) = 1

\* C6: a task that calls take_upload_url or return_upload_url is never stuck
\* behind the pool's lock held by a suspended task.
C6_LeaseNeverStuck == stuck # "pool"

\* C7: every started task reaches a terminal state, whatever fails.
C7_EveryTaskTerminates ==
    \A i \in Tasks : (task[i].pc # "new") ~> (task[i].pc = "done")

\* C8: the number of idle slots is the prefilled count plus the releases minus
\* the leases that found an idle slot; a lease that mints is not counted.
C8_PoolAccounting ==
    phase \in {"transfer", "finished"} =>
        Len(pool) = PrefillCount + releases - hits

C8_Witness ==
    /\ phase = "finished"
    /\ releases >= 1
    /\ hits >= 1
    /\ \E i \in Tasks : task[i].miss = "Ok" /\ task[i].ret
    /\ Len(pool) # PrefillCount

\* ------------------------------------------------------------------------
\* Properties of the listing phase

\* the keys this run of run_aws_cache has written to .aws_files
Written == SubSeq(aws_files, spooled + 1, Len(aws_files))

\* the page an object's key comes from, and its place on that page
PageNo(k) == k \div 10
Idx(k) == k % 10

\* the place of page p among the responses received
Place(p) == CHOOSE n \in 1..Len(received) : received[n] = p

\* pages are written in the order received
PagesInOrder ==
    \A a, b \in 1..Len(Written) :
        (a < b /\ PageNo(Written[a]) # PageNo(Written[b])) =>
            Place(PageNo(Written[a])) < Place(PageNo(Written[b]))

\* every list request carries the cursor of the response before it, the
\* first one none
Chained ==
    \A n \in 1..Len(requests) :
        IF n = 1 THEN requests[n] = None
        ELSE n - 1 <= Len(received) /\ requests[n] = Cursor(received[n - 1])

\* C9 as stated: the keys of one page are written in the reverse of the order
\* in which the provider returned them, pages in the order received, the
\* requests chained by the continuation cursor.
C9_ReverseWithinPage ==
    /\ \A a, b \in 1..Len(Written) :
          (a < b /\ PageNo(Written[a]) = PageNo(Written[b])) =>
              Idx(Written[a]) > Idx(Written[b])
    /\ PagesInOrder
    /\ Chained

\* C9 amended: the keys of one page are written in the order in which the
\* provider returned them (the reverse in req_more_objects and the pop from
\* the end in get_next_object cancel), pages in the order received, the
\* requests chained by the continuation cursor.
C9_ProviderOrder ==
    /\ \A a, b \in 1..Len(Written) :
          (a < b /\ PageNo(Written[a]) = PageNo(Written[b])) =>
              Idx(Written[a]) < Idx(Written[b])
    /\ PagesInOrder
    /\ Chained

C9_Witness ==
    /\ epc = "done"
    /\ Len(requests) >= 2
    /\ \E a, b \in 1..Len(Written) :
          a < b /\ PageNo(Written[a]) = PageNo(Written[b])
    /\ \E a, b \in 1..Len(Written) : PageNo(Written[a]) # PageNo(Written[b])

\* the objects of the pages received that have a size > 0 and a key
Wanted(o) == o.size # NoSize /\ o.size > 0 /\ o.key # None
WantedKeys ==
    {listing[received[n]][j].key :
        <<n, j>> \in {x \in (1..Len(received)) \X (1..MaxEntries) :
                        /\ x[2] <= Len(listing[received[x[1]]])
                        /\ Wanted(listing[received[x[1]]][x[2]])}}

\* C10: what one drain writes is exactly the objects, over the pages received,
\* that have a size > 0 and a key, each once; what the file holds is never
\* altered, also when a list request fails.
C10_SpoolContent ==
    /\ [](/\ \A n \in 1..Len(Written) :
               Written[n] \in WantedKeys /\ Count(Written, Written[n]) = 1
          /\ epc \in {"sync", "done"} =>
               \A k \in WantedKeys : Count(Written, k) = 1)
    /\ [][/\ Len(aws_files') >= Len(aws_files)
          /\ SubSeq(aws_files', 1, Len(aws_files)) = aws_files]_vars

C10_Witness ==
    /\ epc = "done"
    /\ spooled > 0
    /\ Len(requests) > Len(received)
    /\ Len(received) >= 1
    /\ Len(Written) >= 1
    /\ \E j \in 1..Len(listing[1]) : ~Wanted(listing[1][j])

\* no list request of this drain has failed
NoListingError == Len(requests) = Len(received)

\* C11: without a listing error the drain stops only when the cache is empty
\* and the last response carried no cursor, so that every page of the cursor
\* chain has been requested; a page with a cursor and no entries does not end
\* the enumeration.
C11_StopsOnlyWhenExhausted ==
    (epc \in {"sync", "done"} /\ NoListingError) =>
        /\ cache = <<>>
        /\ next_continuation_token = None
        /\ Len(received) = Len(listing)

\* C12: the failure log only grows at its end: it is always the content it had
\* when the sink was opened, followed by the keys recorded since, in the order
\* of the calls; no earlier line is overwritten or dropped
C12_SinkOnlyAppends == failed_transfers = failed_before \o recorded

\* the local files main opens or writes before the first task: an error of
\* one of these calls is an I/O error on .aws_files or .failed_transfers
SetupIOCauses == {"spool", "sink_open", "spool_read"}

\* some task's write of its key to the failure log returned an I/O error
SinkWriteFailed == \E i \in Tasks : task[i].sink = "Err"

\* C13 as stated: every local I/O error on the spool or the failure log ends
\* the run at once, the error of a task's write to the failure log included
C13_AnyLocalIOErrorFatal ==
    /\ cause \in SetupIOCauses => phase = "aborted" /\ started = <<>>
    /\ SinkWriteFailed => phase = "aborted"

\* C13: an I/O error while main opens or writes the spool, opens the failure
\* log or opens the spool for reading ends the run with no task started; an
\* I/O error of a task's write to the failure log does not end the run: main
\* stays in the transfer phase and goes on starting tasks
C13_SetupIOErrorFatal ==
    /\ [](cause \in SetupIOCauses =>
            phase = "aborted" /\ started = <<>> /\ failed_transfers = failed_before)
    /\ [][(\E i \in Tasks : task[i].sink # "Err" /\ task'[i].sink = "Err") =>
            phase = "transfer" /\ phase' = "transfer"]_vars

\* a task's write to the failure log has failed and Concurrency other tasks are
\* under way: the last of them was started after that failure
C13_Witness ==
    \E i \in Tasks :
        /\ task[i].sink = "Err"
        /\ Cardinality({j \in Tasks \ {i} : task[j].pc \notin {"new", "done"}}) = Concurrency

\* C14: no task starts before PrefillCount slots have been minted into the
\* idle set, and a failed prefill mint ends the run with no task started and
\* the failure log as it was
C14_PrefillOrdering ==
    /\ [](phase \in {"start", "auth", "open_sink", "prefill", "read"} => started = <<>>)
    /\ [](phase = "read" => Len(pool) = PrefillCount /\ minted = PrefillCount)
    /\ [][started = <<>> /\ started' # <<>> =>
            Len(pool) = PrefillCount /\ minted = PrefillCount]_vars
    /\ [](cause = "prefill" =>
            /\ phase = "aborted"
            /\ started = <<>>
            /\ \A i \in Tasks : task[i].pc = "new"
            /\ failed_transfers = failed_before
            /\ recorded = <<>>)

\* the last prefill mint has failed, with a failure log left by an earlier run
C14_Witness ==
    /\ cause = "prefill"
    /\ minted = PrefillCount - 1
    /\ failed_before # <<>>

\* a list request of this drain has failed
ListingFailed == Len(requests) > Len(received)

\* C15: a failed list request is swallowed: it is the last request of the
\* drain, no key is spooled after it, the loop ends in the same or the next
\* iteration, and run_aws_cache returns an error only if sync_all fails
C15_ListingErrorEndsDrain ==
    /\ [](ListingFailed =>
            /\ Len(requests) = Len(received) + 1
            /\ cache = <<>>
            /\ epc \in {"loop", "sync", "done", "error"})
    /\ [][ListingFailed => requests' = requests /\ aws_files' = aws_files]_vars
    /\ [][ListingFailed /\ epc = "loop" => epc' = "sync"]_vars
    /\ [][ListingFailed' /\ epc' = "error" => epc = "sync"]_vars

\* a refill has failed after a first page whose key was spooled, and
\* run_aws_cache has returned Ok
C15_Witness ==
    /\ ListingFailed
    /\ epc = "done"
    /\ Len(received) >= 1
    /\ Len(aws_files) > spooled

\* C16: no lock is held across a suspension: at every await point (every
\* state of the transfer phase is one) neither the pool's mutex nor the
\* failure sink's mutex has an owner
C16_NoLockAcrossSuspension == pool_lock = 0 /\ sink_lock = 0

\* C17: a task whose download reports no body ends Ok in that step, having
\* made no lease, mint, upload or release; the step leaves the pool, the mint
\* and release counts and the failure log unchanged, and the key is never
\* recorded in the failure log
C17_NoBodyIsNoOp ==
    /\ [](\A i \in Tasks : task[i].dl = "NoBody" =>
            /\ task[i].pc = "done"
            /\ task[i].res = "Ok"
            /\ task[i].url = None /\ task[i].how = ""
            /\ task[i].miss = "" /\ task[i].mint = ""
            /\ task[i].ups = <<>>
            /\ ~task[i].ret
            /\ task[i].sink = ""
            /\ Count(recorded, lines[i]) = 0)
    /\ [][\A i \in Tasks : task[i].dl = "" /\ task'[i].dl = "NoBody" =>
            /\ pool' = pool
            /\ pool_lock' = pool_lock
            /\ minted' = minted
            /\ releases' = releases
            /\ hits' = hits
            /\ log_vars' = log_vars
            /\ sink_lock' = sink_lock]_vars

\* a no-body task has ended, another task has returned its slot and the idle
\* set is as full as the prefill left it
C17_Witness ==
    \E i \in Tasks :
        /\ task[i].dl = "NoBody"
        /\ task[i].pc = "done"
        /\ Len(pool) = PrefillCount
        /\ \E j \in Tasks : j # i /\ task[j].ret

\* C18: the idle set never holds more slots than the prefill put there
C18_IdleAtMostCapacity == Len(pool) <= PrefillCount

\* a task that found the idle set empty has minted a slot and returned it,
\* and the idle set is full
C18_Witness ==
    /\ Len(pool) = PrefillCount
    /\ \E i \in Tasks : task[i].miss = "Ok" /\ task[i].ret

\* the slots of the idle set
Idle == {pool[n] : n \in 1..Len(pool)}

\* C19: a task whose retry mint succeeded holds the new slot, not the one it
\* leased; when its retried upload succeeds it is the new slot that is pushed
\* onto the idle set; the slot it leased is never again in the idle set nor
\* held by any task
C19_RetryReleasesFreshSlot ==
    /\ [](\A i \in Tasks : task[i].mint = "Ok" =>
            /\ task[i].leased # None
            /\ task[i].leased \notin Idle
            /\ \A j \in Tasks : task[j].url # task[i].leased
            /\ task[i].pc = "reupload" => task[i].url > task[i].leased)
    /\ [][\A i \in Tasks : task[i].pc = "reupload" /\ task'[i].ret =>
            /\ pool' = Append(pool, task[i].url)
            /\ task[i].url # task[i].leased]_vars

\* a task has released the slot of its successful retry, the only slot minted
\* since the prefill, and another task has leased that slot from the idle set
C19_Witness ==
    \E i, j \in Tasks :
        /\ task[i].mint = "Ok"
        /\ task[i].ret
        /\ j # i
        /\ \A k \in Tasks : task[k].miss = "" /\ (k # i => task[k].mint = "")
        /\ task[j].how = "pool"
        /\ task[j].leased > PrefillCount

\* the slots that exist: those of the idle set and those held by tasks
Live == Len(pool) + Cardinality({i \in Tasks : task[i].url # None})

\* C20: a task that ends in error has not released and holds no slot, and the
\* slot it leased is not in the idle set; during the transfer the number of
\* live slots falls only in a step where a task holding a slot ends in error,
\* by that one slot, and rises only in a step where a mint on a miss succeeds
C20_FatalNeverReleases ==
    /\ [](\A i \in Tasks : task[i].res = "Err" =>
            /\ ~task[i].ret
            /\ task[i].url = None
            /\ task[i].leased # None => task[i].leased \notin Idle)
    /\ [][\A i \in Tasks :
            task[i].url # None /\ task[i].res = "" /\ task'[i].res = "Err" =>
                Live' = Live - 1 /\ pool' = pool]_vars
    /\ [][phase = "transfer" /\ Live' < Live =>
            \E i \in Tasks :
                task[i].url # None /\ task[i].res = "" /\ task'[i].res = "Err"]_vars
    /\ [][phase = "transfer" /\ Live' > Live =>
            /\ Live' = Live + 1
            /\ \E i \in Tasks : task[i].miss = "" /\ task'[i].miss = "Ok"]_vars

\* one task has ended in error after its retried upload failed, another after
\* a mint on a miss
C20_Witness ==
    \E i, j \in Tasks :
        /\ task[i].res = "Err"
        /\ task[i].mint = "Ok"
        /\ Len(task[i].ups) = 2
        /\ task[j].miss = "Ok"
====
